---- MODULE Spec2Model ----
(***************************************************************************)
(* examples/simulations/sim_3_topo_residual.ipynb: a notebook of three     *)
(* code cells run by one IPython kernel.  Cell 0 opens the reference       *)
(* time-series and copies/normalizes its perpendicular baseline, cell 1    *)
(* computes the topographic residual time-series and writes it when the    *)
(* output file is absent, cell 2 shells out to view.py on the output file. *)
(*                                                                         *)
(* Numbers.  numpy floats are modelled as exact rationals <<n, d>> in      *)
(* lowest terms with d > 0; a division by zero gives what numpy gives:     *)
(* <<0,0>> (nan), <<1,0>> (inf), <<-1,0>> (-inf).  float32 rounding and    *)
(* the sign of zero are not modelled.  Angles are multiples of 30 degrees, *)
(* radians are counted in units of pi/6, and sin is a table on them.       *)
(***************************************************************************)
EXTENDS Integers, Sequences, FiniteSets, TLC

\* ---------------------------------------------------------------- bounds
\* largest number of acquisition dates of the reference time-series
MaxDate == 2
\* cell 1 is not started once pbase has been amplified this many times
MaxAmp == 2

\* values the inputs are drawn from
PbaseVals == {-2, 1, 3}
Shapes == {<<1, 2>>, <<2, 1>>, <<2, 2>>}
DemVals == <<2, -1, 0>>
RgVals == <<1, 3, 0>>
IncVals == <<90, 30, 0>>
Seeds == {0, 1, 2}

\* ---------------------------------------------------------------- numbers
Abs(n) == IF n < 0 THEN -n ELSE n

Sign(n) == IF n < 0 THEN -1 ELSE IF n = 0 THEN 0 ELSE 1

RECURSIVE GCD(_, _)
GCD(a, b) == IF b = 0 THEN a ELSE GCD(b, a % b)

\* the float n/d: lowest terms, or nan/inf/-inf when d = 0
Frac(n, d) ==
    IF d = 0 THEN <<Sign(n), 0>>
    ELSE LET g == GCD(Abs(n), Abs(d))
             s == Sign(d)
         IN  <<(s * n) \div g, (s * d) \div g>>

Zero == <<0, 1>>

FromInt(n) == <<n, 1>>

\* a * b and a / b of finite floats
FMul(a, b) == Frac(a[1] * b[1], a[2] * b[2])

FDiv(a, b) == Frac(a[1] * b[2], a[2] * b[1])

\* inc_angle * np.pi / 180., in units of pi/6
Radians(deg) == deg \div 30

\* np.sin on multiples of pi/6 in 0..pi/2
NpSin(r) ==
    CASE r = 0 -> <<0, 1>>
      [] r = 1 -> <<1, 2>>
      [] r = 3 -> <<1, 1>>

\* ---------------------------------------------------------------- arrays
\* a 2D array: its shape <<rows, columns>> and its values by pixel <<y, x>>
Pix(sh) == (1 .. sh[1]) \X (1 .. sh[2])

NoArr == [shape |-> <<0, 0>>, v |-> [p \in Pix(<<0, 0>>) |-> 0]]

\* numpy broadcasting of two 2D shapes: per axis equal, or one of them 1
Compatible(s, t) ==
    \A k \in 1 .. 2 : s[k] = t[k] \/ s[k] = 1 \/ t[k] = 1

Max(a, b) == IF a > b THEN a ELSE b

BShape(s, t) == <<Max(s[1], t[1]), Max(s[2], t[2])>>

\* the element of array a that broadcasting puts at pixel p
At(a, p) ==
    a.v[<<IF a.shape[1] = 1 THEN 1 ELSE p[1],
          IF a.shape[2] = 1 THEN 1 ELSE p[2]>>]

\* an array assigned into a slice of shape t: each axis equal to t's or 1
FitsInto(s, t) == \A k \in 1 .. 2 : s[k] = t[k] \/ s[k] = 1

\* ---------------------------------------------------------------- inputs
\* row-major position of a pixel, from 0
Idx(sh, p) == (p[1] - 1) * sh[2] + (p[2] - 1)

Nth(vals, k) == vals[(k % Len(vals)) + 1]

RECURSIVE SeqsOf(_, _)
SeqsOf(S, n) ==
    IF n = 0 THEN {<<>>}
    ELSE {Append(s, x) : s \in SeqsOf(S, n - 1), x \in S}

\* timeseries.h5: per-date perpendicular baseline and the data shape
TsFiles ==
    {[pbase |-> pb, numDate |-> Len(pb), length |-> sh[1], width |-> sh[2]] :
        pb \in UNION {SeqsOf(PbaseVals, n) : n \in 1 .. MaxDate}, sh \in Shapes}

\* INPUTS/geometryRadar.h5: two datasets of one shape
GeomFiles ==
    {[incidenceAngle |->
         [shape |-> sh,
          v |-> [p \in Pix(sh) |-> Nth(IncVals, 2 * Idx(sh, p) + s)]],
      slantRangeDistance |->
         [shape |-> sh,
          v |-> [p \in Pix(sh) |-> Nth(RgVals, Idx(sh, p) + s)]]] :
        sh \in Shapes, s \in Seeds}

\* demErr.h5: one dataset, estimated from the time-series so of its shape
DemErrFiles(sh) ==
    {[dem |-> [shape |-> sh,
               v |-> [p \in Pix(sh) |-> Nth(DemVals, Idx(sh, p) + s)]]] :
        s \in Seeds}

NoFile == [exists |-> FALSE, data |-> <<>>]

\* ---------------------------------------------------------------- state
VARIABLES
    ts_file, geom_file, dem_err_file,   \* the input files' contents
    out_file,                           \* sim_topoResid.h5: [exists, data]
    defined,                            \* cell 0 has run in this kernel
    ts_obj,                             \* the opened timeseries object
    pbase, num_date, length, width,     \* kernel globals of cell 0
    inc_angle, rg_dist, dem_err,        \* kernel globals of cell 1
    ts_data, i,
    pc,                                 \* position of the kernel
    found,                              \* isfile(out_file) of this execution of cell 1
    log,                                \* library calls and steps of this execution of cell 1
    stdout,                             \* what this execution of cell 1 printed
    amp,                                \* times pbase was amplified since cell 0
    assigned,                           \* times each epoch slice was assigned
    viewed                              \* what view.py found when cell 2 last ran

vars == <<ts_file, geom_file, dem_err_file, out_file, defined, ts_obj, pbase,
          num_date, length, width, inc_angle, rg_dist, dem_err, ts_data, i,
          pc, found, log, stdout, amp, assigned, viewed>>

files == <<ts_file, geom_file, dem_err_file, out_file>>
cell0vars == <<defined, ts_obj, pbase, num_date, length, width, amp>>
cell1arrs == <<inc_angle, rg_dist, dem_err, ts_data, i, assigned>>
cell1ghost == <<found, log, stdout>>

NoTsObj == [pbase |-> <<>>, numDate |-> 0, length |-> 0, width |-> 0]

Init ==
    /\ ts_file \in TsFiles
    /\ geom_file \in GeomFiles
    /\ dem_err_file \in DemErrFiles(<<ts_file.length, ts_file.width>>)
    /\ out_file = NoFile
    /\ defined = FALSE
    /\ ts_obj = NoTsObj
    /\ pbase = <<>>
    /\ num_date = 0
    /\ length = 0
    /\ width = 0
    /\ inc_angle = NoArr
    /\ rg_dist = NoArr
    /\ dem_err = NoArr
    /\ ts_data = <<>>
    /\ i = 0
    /\ pc = "idle"
    /\ found = FALSE
    /\ log = <<>>
    /\ stdout = <<>>
    /\ amp = 0
    /\ assigned = <<>>
    /\ viewed = "none"

\* ---------------------------------------------------------------- cell 0
\* pbase left as read
NormalizeNone(pb) == pb

\* pbase -= pbase[0]
Normalize(pb) == [k \in 1 .. Len(pb) |-> pb[k] - pb[1]]

\* ts_obj = timeseries(ts_file); ts_obj.open()
OpenTs(f) == [pbase |-> f.pbase, numDate |-> f.numDate,
              length |-> f.length, width |-> f.width]

\* pbase = ts_obj.pbase without np.array: pbase aliases the object's array
Cell0Alias ==
    /\ pc = "idle"
    /\ ts_obj' = [OpenTs(ts_file) EXCEPT !.pbase = Normalize(@)]
    /\ pbase' = ts_obj'.pbase
    /\ num_date' = ts_obj'.numDate
    /\ length' = ts_obj'.length
    /\ width' = ts_obj'.width
    /\ defined' = TRUE
    /\ amp' = 0
    /\ UNCHANGED <<files, cell1arrs, cell1ghost, pc, viewed>>

Cell0 ==
    /\ pc = "idle"
    /\ ts_obj' = OpenTs(ts_file)
    /\ pbase' = Normalize(ts_obj'.pbase)
    /\ num_date' = ts_obj'.numDate
    /\ length' = ts_obj'.length
    /\ width' = ts_obj'.width
    /\ defined' = TRUE
    /\ amp' = 0
    /\ UNCHANGED <<files, cell1arrs, cell1ghost, pc, viewed>>

\* ---------------------------------------------------------------- library
\* readfile.read(file, datasetName=...)[0]: the dataset as a float array
ReadData(a) ==
    [shape |-> a.shape, v |-> [p \in Pix(a.shape) |-> FromInt(a.v[p])]]

\* writefile.write(data, out_file=..., ref_file=...): a new file holding data
WriteData(data) == [exists |-> TRUE, data |-> data]

\* ---------------------------------------------------------------- numpy
\* array * scalar
ScalarMul(a, c) ==
    [shape |-> a.shape, v |-> [p \in Pix(a.shape) |-> FMul(a.v[p], FromInt(c))]]

\* np.sin(array * np.pi / 180.)
SinDeg(a) ==
    [shape |-> a.shape,
     v |-> [p \in Pix(a.shape) |-> NpSin(Radians(a.v[p][1]))]]

\* array * array and array / array, elementwise on the broadcast operands
MulArr(a, b) ==
    [shape |-> BShape(a.shape, b.shape),
     v |-> [p \in Pix(BShape(a.shape, b.shape)) |-> FMul(At(a, p), At(b, p))]]

DivArr(a, b) ==
    [shape |-> BShape(a.shape, b.shape),
     v |-> [p \in Pix(BShape(a.shape, b.shape)) |-> FDiv(At(a, p), At(b, p))]]

\* np.zeros((num_date + 1, length, width), np.float32)
ZerosExtra(n, l, w) == [k \in 1 .. n + 1 |-> [p \in Pix(<<l, w>>) |-> Zero]]

\* np.zeros((num_date, length, width), np.float32)
Zeros(n, l, w) == [k \in 1 .. n |-> [p \in Pix(<<l, w>>) |-> Zero]]

\* ---------------------------------------------------------------- cell 1
Raise(what) ==
    /\ log' = log \o what
    /\ pc' = "idle"

\* cell 1 run before cell 0: out_file is not defined
Cell1NameError ==
    /\ pc = "idle"
    /\ ~defined
    /\ found' = FALSE
    /\ log' = <<"raise:NameError">>
    /\ stdout' = <<>>
    /\ UNCHANGED <<files, cell0vars, cell1arrs, pc, viewed>>

\* the body run without the isfile test
Cell1StartAlways ==
    /\ pc = "idle"
    /\ defined
    /\ amp < MaxAmp
    /\ found' = out_file.exists
    /\ log' = <<>>
    /\ stdout' = <<>>
    /\ pc' = "read_inc"
    /\ UNCHANGED <<files, cell0vars, cell1arrs, viewed>>

\* if os.path.isfile(out_file): the test inverted
Cell1StartInverted ==
    /\ pc = "idle"
    /\ defined
    /\ ~out_file.exists \/ amp < MaxAmp
    /\ found' = out_file.exists
    /\ log' = <<>>
    /\ stdout' = <<>>
    /\ pc' = IF out_file.exists THEN "read_inc" ELSE "print_done"
    /\ UNCHANGED <<files, cell0vars, cell1arrs, viewed>>

\* if not os.path.isfile(out_file):
Cell1Start ==
    /\ pc = "idle"
    /\ defined
    /\ out_file.exists \/ amp < MaxAmp
    /\ found' = out_file.exists
    /\ log' = <<>>
    /\ stdout' = <<>>
    /\ pc' = IF out_file.exists THEN "print_done" ELSE "read_inc"
    /\ UNCHANGED <<files, cell0vars, cell1arrs, viewed>>

\* inc_angle = readfile.read(geom_file, datasetName='incidenceAngle')[0]
ReadIncAngle ==
    /\ pc = "read_inc"
    /\ \/ /\ inc_angle' = ReadData(geom_file.incidenceAngle)
          /\ log' = Append(log, "read:incidenceAngle")
          /\ pc' = "read_rg"
       \/ /\ Raise(<<"read:incidenceAngle", "raise:read">>)
          /\ UNCHANGED inc_angle
    /\ UNCHANGED <<files, cell0vars, rg_dist, dem_err, ts_data, i, assigned,
                   found, stdout, viewed>>

\* rg_dist = readfile.read(geom_file, datasetName='slantRangeDistance')[0]
ReadRgDist ==
    /\ pc = "read_rg"
    /\ \/ /\ rg_dist' = ReadData(geom_file.slantRangeDistance)
          /\ log' = Append(log, "read:slantRangeDistance")
          /\ pc' = "amplify"
       \/ /\ Raise(<<"read:slantRangeDistance", "raise:read">>)
          /\ UNCHANGED rg_dist
    /\ UNCHANGED <<files, cell0vars, inc_angle, dem_err, ts_data, i, assigned,
                   found, stdout, viewed>>

\* the factor of pbase *= 10.
AmpFactor == 10

\* pbase *= 10.
Amplify ==
    /\ pc = "amplify"
    /\ pbase' = [k \in 1 .. Len(pbase) |-> pbase[k] * AmpFactor]
    /\ amp' = amp + 1
    /\ log' = Append(log, "amplify")
    /\ pc' = "read_dem"
    /\ UNCHANGED <<files, defined, ts_obj, num_date, length, width, cell1arrs,
                   found, stdout, viewed>>

\* the read wrapped in try/except: pass
ReadDemErrSwallow ==
    /\ pc = "read_dem"
    /\ \/ /\ dem_err' = ReadData(dem_err_file.dem)
          /\ log' = Append(log, "read:demErr")
       \/ /\ log' = log \o <<"read:demErr", "raise:read">>
          /\ dem_err' = ReadData(dem_err_file.dem)
    /\ pc' = "alloc"
    /\ UNCHANGED <<files, cell0vars, inc_angle, rg_dist, ts_data, i, assigned,
                   found, stdout, viewed>>

\* dem_err = readfile.read(dem_err_file)[0]
ReadDemErr ==
    /\ pc = "read_dem"
    /\ \/ /\ dem_err' = ReadData(dem_err_file.dem)
          /\ log' = Append(log, "read:demErr")
          /\ pc' = "alloc"
       \/ /\ Raise(<<"read:demErr", "raise:read">>)
          /\ UNCHANGED dem_err
    /\ UNCHANGED <<files, cell0vars, inc_angle, rg_dist, ts_data, i, assigned,
                   found, stdout, viewed>>

\* ts_data = np.zeros(...); for i in range(num_date): entered with i = 0
AllocTsData ==
    /\ pc = "alloc"
    /\ ts_data' = Zeros(num_date, length, width)
    /\ assigned' = [k \in 1 .. num_date |-> 0]
    /\ i' = 0
    /\ log' = Append(log, "alloc")
    /\ pc' = IF num_date = 0 THEN "write" ELSE "loop"
    /\ UNCHANGED <<files, cell0vars, inc_angle, rg_dist, dem_err,
                   found, stdout, viewed>>

\* dem_err * pbase[i] / (rg_dist * np.sin(inc_angle * np.pi / 180.))
TopoResidOK ==
    /\ Compatible(rg_dist.shape, inc_angle.shape)
    /\ Compatible(dem_err.shape,
                  BShape(rg_dist.shape, inc_angle.shape))

\* dem_err * pbase[i] / rg_dist * np.sin(...): the parentheses dropped
TopoResidNoParen(k) ==
    MulArr(DivArr(ScalarMul(dem_err, pbase[k + 1]), rg_dist),
           SinDeg(inc_angle))

TopoResid(k) ==
    DivArr(ScalarMul(dem_err, pbase[k + 1]),
           MulArr(rg_dist, SinDeg(inc_angle)))

\* ts_data[:i+1,:,:] = value
SetSliceUpTo(data, k, a) ==
    [j \in 1 .. Len(data) |->
        IF j <= k + 1 THEN [p \in Pix(<<length, width>>) |-> At(a, p)]
        ELSE data[j]]

\* ts_data[i,:,:] = value
SetSlice(data, k, a) ==
    [data EXCEPT ![k + 1] = [p \in Pix(<<length, width>>) |-> At(a, p)]]

\* the write indented into the loop body
LoopStepEarlyWrite ==
    /\ pc = "loop"
    /\ i < num_date
    /\ IF TopoResidOK /\ FitsInto(TopoResid(i).shape, <<length, width>>)
       THEN /\ ts_data' = SetSlice(ts_data, i, TopoResid(i))
            /\ assigned' = [assigned EXCEPT ![i + 1] = @ + 1]
            /\ i' = i + 1
            /\ log' = Append(log, "epoch")
            /\ pc' = "write"
       ELSE /\ Raise(<<"raise:shape">>)
            /\ UNCHANGED <<ts_data, assigned, i>>
    /\ UNCHANGED <<files, cell0vars, inc_angle, rg_dist, dem_err,
                   found, stdout, viewed>>

\* one iteration of the loop; i counts from 0 as range(num_date) does
LoopStep ==
    /\ pc = "loop"
    /\ i < num_date
    /\ IF TopoResidOK /\ FitsInto(TopoResid(i).shape, <<length, width>>)
       THEN /\ ts_data' = SetSlice(ts_data, i, TopoResid(i))
            /\ assigned' = [assigned EXCEPT ![i + 1] = @ + 1]
            /\ i' = i + 1
            /\ log' = Append(log, "epoch")
            /\ pc' = IF i + 1 < num_date THEN "loop" ELSE "write"
       ELSE /\ Raise(<<"raise:shape">>)
            /\ UNCHANGED <<ts_data, assigned, i>>
    /\ UNCHANGED <<files, cell0vars, inc_angle, rg_dist, dem_err,
                   found, stdout, viewed>>

\* writefile.write(ts_data, out_file=out_file, ref_file=ts_file)
Write ==
    /\ pc = "write"
    /\ \/ /\ out_file' = WriteData(ts_data)
          /\ log' = Append(log, "write")
          /\ pc' = "print_write"
       \/ /\ Raise(<<"write", "raise:write">>)
          /\ UNCHANGED out_file
    /\ UNCHANGED <<ts_file, geom_file, dem_err_file, cell0vars, cell1arrs,
                   found, stdout, viewed>>

\* print('write simulated topographic residual time-series to file', out_file)
PrintWrite ==
    /\ pc = "print_write"
    /\ stdout' = Append(stdout, "write simulated")
    /\ pc' = "print_done"
    /\ UNCHANGED <<files, cell0vars, cell1arrs, found, log, viewed>>

\* print('Done.')
PrintDone ==
    /\ pc = "print_done"
    /\ stdout' = Append(stdout, "Done.")
    /\ pc' = "idle"
    /\ UNCHANGED <<files, cell0vars, cell1arrs, found, log, viewed>>

\* the steps of a started execution of cell 1
Cell1Run ==
    \/ ReadIncAngle
    \/ ReadRgDist
    \/ Amplify
    \/ ReadDemErr
    \/ AllocTsData
    \/ LoopStep
    \/ Write
    \/ PrintWrite
    \/ PrintDone

\* ---------------------------------------------------------------- cell 2
\* !view.py $out_file -n 4
Cell2 ==
    /\ pc = "idle"
    /\ viewed' = IF defined /\ out_file.exists THEN "ok" ELSE "missing"
    /\ UNCHANGED <<files, cell0vars, cell1arrs, cell1ghost, pc>>

Next ==
    \/ Cell0
    \/ Cell1NameError
    \/ Cell1Start
    \/ Cell1Run
    \/ Cell2

Spec == Init /\ [][Next]_vars

\* one content per number of dates and per pair of shapes: the control flow
\* of the cells reads the shapes and num_date, never the values
InitControl ==
    /\ Init
    /\ \A k \in 1 .. ts_file.numDate :
          ts_file.pbase[k] = IF k = 1 THEN 1 ELSE 3
    /\ geom_file.slantRangeDistance.v[<<1, 1>>] = RgVals[1]
    /\ dem_err_file.dem.v[<<1, 1>>] = DemVals[1]

\* the kernel runs a started cell to its end
FairSpec == InitControl /\ [][Next]_vars /\ WF_vars(Cell1Run)

\* ---------------------------------------------------------------- claims
\* sin of an angle in degrees, as numerator and denominator
SinNum(deg) == IF deg = 0 THEN 0 ELSE 1

SinDen(deg) == IF deg = 30 THEN 2 ELSE 1

RECURSIVE Pow(_, _)
Pow(b, e) == IF e = 0 THEN 1 ELSE b * Pow(b, e - 1)

\* original_pbase[k] - original_pbase[0]
NormPbase(k) == ts_file.pbase[k] - ts_file.pbase[1]

\* dem_err[y,x] * pb / (rg_dist[y,x] * sin(inc_angle[y,x])) of the input files
Expected(pb, p) ==
    Frac(At(dem_err_file.dem, p) * pb * SinDen(At(geom_file.incidenceAngle, p)),
         At(geom_file.slantRangeDistance, p)
            * SinNum(At(geom_file.incidenceAngle, p)))

OutPixels == Pix(<<ts_file.length, ts_file.width>>)

\* the output file holds the formula's values for baselines scale * normalized
OutIs(scale) ==
    /\ Len(out_file.data) = ts_file.numDate
    /\ \A k \in 1 .. ts_file.numDate : \A p \in OutPixels :
          out_file.data[k][p] = Expected(scale * NormPbase(k), p)

\* C1 as stated: every value written is the formula's value for the
\* baseline normalized to its first epoch, pbase[i] = orig[i] - orig[0].
C1_AsStated == out_file.exists => OutIs(1)

\* C1 amended: every value written is the formula's value for the in-memory
\* baseline at the time of the loop, which is AmpFactor^k times the normalized
\* baseline, k >= 1 the number of amplifications since cell 0 last ran.
C1_Formula ==
    /\ out_file.exists => \E k \in 1 .. MaxAmp : OutIs(Pow(AmpFactor, k))
    /\ pc = "print_write" => amp >= 1 /\ OutIs(Pow(AmpFactor, amp))

C1_Witness ==
    /\ pc = "print_write"
    /\ \E k \in 1 .. ts_file.numDate : \E p \in OutPixels :
          /\ out_file.data[k][p][1] < 0
          /\ out_file.data[k][p][2] > 1

\* C2: pbase[0] is 0 from cell 0 on, and the first epoch of the written
\* output is zero wherever rg_dist * sin(inc_angle) is not zero.
DenomNonZero(p) ==
    /\ At(geom_file.slantRangeDistance, p) # 0
    /\ SinNum(At(geom_file.incidenceAngle, p)) # 0

C2_FirstEpochZero ==
    /\ defined => pbase[1] = 0
    /\ out_file.exists =>
          \A p \in OutPixels : DenomNonZero(p) => out_file.data[1][p] = Zero

C2_Witness ==
    /\ out_file.exists
    /\ amp = 1
    /\ ts_file.numDate > 1
    /\ \E p \in OutPixels : DenomNonZero(p) /\ out_file.data[2][p] # Zero
    /\ \E p \in OutPixels : ~DenomNonZero(p) /\ out_file.data[1][p] = <<0, 0>>

\* ---------------------------------------------------------------- C3
InCell1 == pc # "idle"

\* C3: an execution of cell 1 that found out_file present reads nothing,
\* leaves pbase, the arrays and the file alone and prints only 'Done.';
\* out_file changes only in an execution that found it absent.
C3_Step ==
    /\ (found' /\ InCell1') \/ (found /\ InCell1) =>
          /\ UNCHANGED <<files, cell0vars, cell1arrs>>
          /\ log' = <<>>
          /\ stdout' = IF InCell1' THEN <<>> ELSE <<"Done.">>
    /\ out_file' # out_file => InCell1 /\ ~found

C3_SkipWhenPresent == [][C3_Step]_vars

C3_Witness ==
    /\ pc = "idle"
    /\ found
    /\ out_file.exists
    /\ stdout = <<"Done.">>

\* ---------------------------------------------------------------- C4
Has(seq, x) == \E k \in 1 .. Len(seq) : seq[k] = x

Count(seq, x) == Cardinality({k \in 1 .. Len(seq) : seq[k] = x})

\* the order of a writing execution
Linear(n) ==
    <<"read:incidenceAngle", "read:slantRangeDistance", "amplify",
      "read:demErr", "alloc">> \o [k \in 1 .. n |-> "epoch"] \o <<"write">>

\* C4: an execution that calls writefile.write has done the three reads,
\* then all num_date epochs, then the write, and calls it once.
C4_Linear ==
    Has(log, "write") =>
        /\ Len(log) >= Len(Linear(num_date))
        /\ SubSeq(log, 1, Len(Linear(num_date))) = Linear(num_date)
        /\ Count(log, "write") = 1

C4_Witness ==
    /\ pc = "print_write"
    /\ num_date > 1
    /\ Count(log, "epoch") = num_date

\* ---------------------------------------------------------------- C5
IsRaise(e) == e \in {"raise:read", "raise:shape"}

\* C5: a failed read or a shape mismatch ends the execution at once: nothing
\* follows it, no read is repeated, no write is called, out_file is not
\* created and nothing is printed.
C5_Propagates ==
    \A k \in 1 .. Len(log) : IsRaise(log[k]) =>
        /\ k = Len(log)
        /\ pc = "idle"
        /\ ~Has(log, "write")
        /\ ~out_file.exists
        /\ stdout = <<>>
        /\ \A e \in {"read:incidenceAngle", "read:slantRangeDistance",
                     "read:demErr"} : Count(log, e) <= 1

C5_Witness ==
    /\ Len(log) > 0
    /\ log[Len(log)] = "raise:read"
    /\ Has(log, "amplify")

\* ---------------------------------------------------------------- C6
\* C6: every output file written uses baselines AmpFactor * (orig[i] -
\* orig[0]): the amplification is applied exactly once.
C6_AmplifiedOnce == out_file.exists => OutIs(AmpFactor)

\* ---------------------------------------------------------------- C7
\* C7: the array handed to writefile.write has the reference's shape
\* (num_date, length, width) and each epoch was assigned exactly once.
C7_AllEpochsAssigned ==
    /\ pc = "write" =>
          /\ Len(ts_data) = ts_file.numDate
          /\ \A k \in 1 .. Len(ts_data) : DOMAIN ts_data[k] = OutPixels
          /\ assigned = [k \in 1 .. ts_file.numDate |-> 1]
    /\ pc = "loop" => i < num_date
    /\ out_file.exists =>
          /\ Len(out_file.data) = ts_file.numDate
          /\ \A k \in 1 .. Len(out_file.data) :
                DOMAIN out_file.data[k] = OutPixels

C7_Witness ==
    /\ pc = "write"
    /\ num_date > 1
    /\ \E p \in OutPixels : ts_data[num_date][p] # Zero

\* ---------------------------------------------------------------- C8
\* dem_err[None] * pbase[:,None,None] / (rg_dist * sin(inc_angle))[None]
Vectorized ==
    [k \in 1 .. Len(pbase) |->
        [p \in Pix(<<length, width>>) |->
            FDiv(FMul(At(dem_err, p), FromInt(pbase[k])),
                 FMul(At(rg_dist, p), NpSin(Radians(At(inc_angle, p)[1]))))]]

\* C8: after the loop ts_data is the broadcast expression; during it the
\* epochs already run hold their final value and the others are still zero.
C8_LoopIsVectorized ==
    /\ pc = "write" => ts_data = Vectorized
    /\ pc = "loop" =>
          \A k \in 1 .. num_date :
             ts_data[k] = IF k <= i THEN Vectorized[k]
                          ELSE Zeros(num_date, length, width)[k]

C8_Witness ==
    /\ pc = "write"
    /\ num_date > 1
    /\ ts_data[1] # ts_data[2]
    /\ inc_angle.shape # <<length, width>>

\* ---------------------------------------------------------------- C9
\* C9: the three input files are never written and ts_obj.pbase keeps the
\* file's values.
C9_InputsReadOnly ==
    /\ [][UNCHANGED <<ts_file, geom_file, dem_err_file>>]_vars
    /\ [](defined => ts_obj.pbase = ts_file.pbase)

C9_Witness ==
    /\ out_file.exists
    /\ amp > 0
    /\ pbase # ts_obj.pbase
    /\ viewed = "ok"

\* ---------------------------------------------------------------- C10
Failed == Len(log) > 0 /\ log[Len(log)] \in
             {"raise:read", "raise:shape", "raise:write", "raise:NameError"}

Done == Len(stdout) > 0 /\ stdout[Len(stdout)] = "Done."

\* C10: a started execution of cell 1 in which no call fails ends with
\* 'Done.', and cell 2 run after it finds out_file.
C10_DoneThenView ==
    /\ [](InCell1 => <>(~InCell1 /\ (Done \/ Failed)))
    /\ [][(Cell2 /\ Done) => viewed' = "ok"]_vars

C10_Witness ==
    /\ pc = "idle"
    /\ viewed = "ok"
    /\ found
    /\ Done
====
